---- MODULE Spec2Model ----
(***************************************************************************)
(* A model of the pet-management web application of src/app.py over the   *)
(* tables of src/models.py: registration, login, the login_required       *)
(* routes, the admin view, the init-db command and the start-up seeding.  *)
(*                                                                         *)
(* Text the code parses or matches (passwords, the age field, form ids,   *)
(* appointment times, upload file names) is a tuple of one-character      *)
(* strings, so that int(), strptime(), re.match() and rsplit() are        *)
(* computed character by character. E-mail addresses and roles are only   *)
(* ever compared for equality by the code and are plain strings.          *)
(* An optional form field is <<>> when absent and <<v>> when present.     *)
(* Columns no handler reads back (name, city, species, breed, gender,     *)
(* flags, message, reason, created_at) are left out of the rows.          *)
(***************************************************************************)
EXTENDS Integers, Sequences, FiniteSets, TLC

\* ------------------------------------------------------------- bounds
\* Rows the pets table may hold.
MaxPets == 1
\* Rows adoption_requests, mating_requests and vet_appointments may hold together.
MaxRequests == 1

\* -------------------------------------------------------------- text
None == <<>>
Some(v) == <<v>>

LF == "\n"
AsciiLower == {"a","b","c","d","e","f","g","h","i","j","k","l","m",
               "n","o","p","q","r","s","t","u","v","w","x","y","z"}
AsciiUpper == {"A","B","C","D","E","F","G","H","I","J","K","L","M",
               "N","O","P","Q","R","S","T","U","V","W","X","Y","Z"}
DigitVal == [c \in {"0","1","2","3","4","5","6","7","8","9"} |->
               CASE c = "0" -> 0 [] c = "1" -> 1 [] c = "2" -> 2 [] c = "3" -> 3
                 [] c = "4" -> 4 [] c = "5" -> 5 [] c = "6" -> 6 [] c = "7" -> 7
                 [] c = "8" -> 8 [] c = "9" -> 9]
Digits == DOMAIN DigitVal
\* Letters outside ASCII: word characters to \w, in neither [a-z] nor [A-Z].
OtherLower == {"é"}
OtherUpper == {"É"}
WordChars == AsciiLower \cup AsciiUpper \cup Digits \cup OtherLower \cup OtherUpper \cup {"_"}
Whitespace == {" ", LF}

Min(a, b) == IF a < b THEN a ELSE b

\* The first index >= from of s holding a character of set, or 0.
IndexFrom(s, set, from) ==
    LET hits == {i \in from..Len(s) : s[i] \in set}
    IN  IF hits = {} THEN 0 ELSE CHOOSE i \in hits : \A j \in hits : i <= j

\* The last index of s holding a character of set, or 0.
LastIndex(s, set) ==
    LET hits == {i \in 1..Len(s) : s[i] \in set}
    IN  IF hits = {} THEN 0 ELSE CHOOSE i \in hits : \A j \in hits : j <= i

RECURSIVE DecVal(_)
DecVal(s) == IF s = <<>> THEN 0
             ELSE 10 * DecVal(SubSeq(s, 1, Len(s) - 1)) + DigitVal[s[Len(s)]]

AllDigits(s) == Len(s) > 0 /\ \A i \in 1..Len(s) : s[i] \in Digits

\* str.strip(): s without its leading and trailing whitespace.
Strip(s) ==
    LET keep == {i \in 1..Len(s) : s[i] \notin Whitespace}
    IN  IF keep = {} THEN <<>>
        ELSE SubSeq(s, CHOOSE i \in keep : \A j \in keep : i <= j,
                       CHOOSE i \in keep : \A j \in keep : j <= i)

\* Python's int(str): surrounding whitespace stripped, an optional sign, then
\* decimal digits. ok = FALSE is the ValueError.
IntOf(s) ==
    LET t    == Strip(s)
        sign == IF t # <<>> /\ t[1] \in {"+", "-"} THEN 1 ELSE 0
        d    == SubSeq(t, sign + 1, Len(t))
    IN  IF AllDigits(d)
        THEN [ok |-> TRUE, val |-> IF sign = 1 /\ t[1] = "-" THEN 0 - DecVal(d) ELSE DecVal(d)]
        ELSE [ok |-> FALSE, val |-> 0]

\* A mutant of AgeOf: an age that is no number is taken as 0.
AgeOf_default(field) ==
    IF field = None \/ field[1] = <<>> \/ ~IntOf(field[1]).ok
    THEN [ok |-> TRUE, val |-> 0]
    ELSE IntOf(field[1])

\* int(request.form.get("age") or 0): an absent or empty field is 0.
AgeOf(field) ==
    IF field = None \/ field[1] = <<>> THEN [ok |-> TRUE, val |-> 0] ELSE IntOf(field[1])

DaysIn(y, m) ==
    IF m \in {4, 6, 9, 11} THEN 30
    ELSE IF m = 2
         THEN (IF (y % 4 = 0 /\ y % 100 # 0) \/ y % 400 = 0 THEN 29 ELSE 28)
         ELSE 31

\* A directive of one or two digits with a value in lo..hi (%m, %d, %H, %M).
Field2(s, lo, hi) == AllDigits(s) /\ Len(s) <= 2 /\ DecVal(s) \in lo..hi

\* datetime.strptime(s, "%Y-%m-%d %H:%M"): four digits of year, "-", month,
\* "-", day, one or more whitespace characters, hour, ":", minute, and
\* nothing after; then the date must exist. ok = FALSE is the ValueError.
Strptime(s) ==
    LET bad == [ok |-> FALSE, val |-> <<>>]
        d2  == IndexFrom(s, {"-"}, 6)
        w1  == IndexFrom(s, Whitespace, d2 + 1)
        rest == {i \in (w1 + 1)..Len(s) : s[i] \notin Whitespace}
        h1  == IF w1 = 0 \/ rest = {} THEN 0 ELSE CHOOSE i \in rest : \A j \in rest : i <= j
        c1  == IndexFrom(s, {":"}, h1)
    IN  IF Len(s) < 5 \/ ~AllDigits(SubSeq(s, 1, 4)) \/ s[5] # "-" THEN bad
        ELSE IF d2 = 0 \/ w1 = 0 \/ h1 = 0 \/ c1 = 0 THEN bad
        ELSE LET yy == DecVal(SubSeq(s, 1, 4))
                 mo == SubSeq(s, 6, d2 - 1)
                 dd == SubSeq(s, d2 + 1, w1 - 1)
                 hh == SubSeq(s, h1, c1 - 1)
                 mi == SubSeq(s, c1 + 1, Len(s))
             IN  IF /\ \A i \in w1..(h1 - 1) : s[i] \in Whitespace
                    /\ Field2(mo, 1, 12) /\ Field2(dd, 1, 31)
                    /\ Field2(hh, 0, 23) /\ Field2(mi, 0, 59)
                    /\ yy >= 1 /\ DecVal(dd) <= DaysIn(yy, DecVal(mo))
                 THEN [ok |-> TRUE,
                       val |-> <<yy, DecVal(mo), DecVal(dd), DecVal(hh), DecVal(mi)>>]
                 ELSE bad

\* One look-ahead (?=.*[class]) at the start of the text: "." stops at a line
\* feed, so the class character has only non-line-feed characters before it.
LookAhead(pw, class) ==
    \E i \in 1..Len(pw) : pw[i] \in class /\ \A j \in 1..(i - 1) : pw[j] # LF

\* [\W_]: every character that is not a word character, and the underscore.
IsSymbol(c) == c \notin WordChars \/ c = "_"

\* re.match(r"^(?=.*[a-z])(?=.*[A-Z])(?=.*\d)(?=.*[\W_]).{8,}$", password):
\* ".{8,}" takes characters other than line feed, and "$" is the end of the
\* text or the place before one final line feed.
password_pattern(pw) ==
    /\ LookAhead(pw, AsciiLower)
    /\ LookAhead(pw, AsciiUpper)
    /\ LookAhead(pw, Digits)
    /\ \E i \in 1..Len(pw) : IsSymbol(pw[i]) /\ \A j \in 1..(i - 1) : pw[j] # LF
    /\ \E n \in 8..Len(pw) :
          /\ \A j \in 1..n : pw[j] # LF
          /\ n = Len(pw) \/ (n = Len(pw) - 1 /\ pw[Len(pw)] = LF)

\* bcrypt: the digest is a function of the first 72 bytes of the password (the
\* salt is part of the digest and is not modelled); it is never the plaintext.
generate_password_hash(pw) == [alg |-> "bcrypt", of |-> SubSeq(pw, 1, Min(72, Len(pw)))]
check_password_hash(h, pw) == h = generate_password_hash(pw)

ALLOWED_EXTENSIONS == {<<"p","n","g">>, <<"j","p","g">>, <<"j","p","e","g">>, <<"g","i","f">>}

\* str.lower() on the ASCII letters the samples use.
LowerChar(c) ==
    CASE c = "P" -> "p" [] c = "N" -> "n" [] c = "G" -> "g" [] c = "J" -> "j"
      [] c = "E" -> "e" [] c = "I" -> "i" [] c = "F" -> "f" [] c = "R" -> "r"
      [] c = "X" -> "x" [] c = "T" -> "t" [] OTHER -> c
Lower(s) == [i \in 1..Len(s) |-> LowerChar(s[i])]

\* "." in filename and filename.rsplit(".", 1)[1].lower() in ALLOWED_EXTENSIONS
allowed_file(filename) ==
    LET dot == LastIndex(filename, {"."})
    IN  dot # 0 /\ Lower(SubSeq(filename, dot + 1, Len(filename))) \in ALLOWED_EXTENSIONS

\* werkzeug's secure_filename on ASCII names: path separators become "_",
\* characters outside [A-Za-z0-9_.-] are dropped, and leading and trailing
\* "." and "_" are stripped.
secure_filename(filename) ==
    LET sep   == [i \in 1..Len(filename) |-> IF filename[i] = "/" THEN "_" ELSE filename[i]]
        safe  == SelectSeq(sep, LAMBDA c : c \in AsciiLower \cup AsciiUpper \cup Digits \cup {"_", ".", "-"})
        keep  == {i \in 1..Len(safe) : safe[i] \notin {".", "_"}}
    IN  IF keep = {} THEN <<>>
        ELSE SubSeq(safe, CHOOSE i \in keep : \A j \in keep : i <= j,
                          CHOOSE i \in keep : \A j \in keep : j <= i)

\* ------------------------------------------------------------ inputs
\* Browser sessions, and the server threads that handle requests at once.
Clients == {"c1"}
Workers == {"w1", "w2"}

AdminEmail == "admin@janvar.com"
VetEmail == "vet@example.com"
Emails == {AdminEmail, "alice@x.com"}

PwStrong == <<"S","t","r","0","n","g","!","P","a","s","s">>
PwAdmin == <<"a","d","m","i","n","1","2","3">>
PwVet == <<"v","e","t","1","2","3">>
PwLineFeed == <<"A","a","1","!",LF,"a","a","a","a">>
\* register forms: a stored e-mail, a new e-mail with each role, and a new
\* e-mail with each password the pattern rejects.
RegisterForms ==
    { [email |-> AdminEmail,    password |-> PwStrong,   role |-> None],
      [email |-> "alice@x.com", password |-> PwStrong,   role |-> None],
      [email |-> "alice@x.com", password |-> PwStrong,   role |-> Some("admin")],
      [email |-> "alice@x.com", password |-> PwStrong,   role |-> Some("vet")],
      [email |-> "alice@x.com", password |-> PwAdmin,    role |-> None],
      [email |-> "alice@x.com", password |-> PwLineFeed, role |-> Some("admin")] }
LoginForms == [email : Emails, password : {PwStrong, PwAdmin}]

RexPng == <<"r","e","x",".","P","N","G">>
NotesTxt == <<"n","o","t","e","s",".","t","x","t">>
\* add_pet forms: the age field, the uploaded file, and an owner_id field a
\* client may add to the form.
AddPetForms ==
    { [age |-> None,                  image |-> None,           owner |-> None],
      [age |-> Some(<<>>),            image |-> Some(RexPng),   owner |-> Some(<<"1">>)],
      [age |-> Some(<<"7">>),         image |-> Some(NotesTxt), owner |-> Some(<<"1">>)],
      [age |-> Some(<<"a","b","c">>), image |-> Some(RexPng),   owner |-> None] }

\* Pet ids in the URL (the <int:pet_id> converter) and ids in form fields:
\* 1 is the first row of a table, 9 is a row no table of this size holds.
PetIdArgs == {1, 9}
MatingForms ==
    { [pet_id |-> 1, requester_pet_id |-> <<"1">>],
      [pet_id |-> 9, requester_pet_id |-> <<"1">>],
      [pet_id |-> 1, requester_pet_id |-> <<"9">>],
      [pet_id |-> 1, requester_pet_id |-> <<"x">>] }

TimeGood == <<"2","0","2","6","-","0","1","-","0","5"," ","1","0",":","3","0">>
TimeDateOnly == <<"2","0","2","6","-","0","1","-","0","5">>
TimeFeb30 == <<"2","0","2","6","-","0","2","-","3","0"," ","1","0",":","3","0">>
BookForms ==
    { [pet_id |-> <<"1">>, vet_id |-> <<"2">>, appointment_time |-> TimeGood],
      [pet_id |-> <<"9">>, vet_id |-> <<"2">>, appointment_time |-> TimeGood],
      [pet_id |-> <<"1">>, vet_id |-> <<"9">>, appointment_time |-> TimeGood],
      [pet_id |-> <<"x">>, vet_id |-> <<"2">>, appointment_time |-> TimeGood],
      [pet_id |-> <<"1">>, vet_id |-> <<"2">>, appointment_time |-> TimeDateOnly],
      [pet_id |-> <<"1">>, vet_id |-> <<"2">>, appointment_time |-> TimeFeb30] }

\* ------------------------------------------------------------- state
VARIABLES
    users,              \* table users: rows [email, password_hash, role], id = index
    pets,               \* table pets: rows [owner_id, age, image]
    adoption_requests,  \* rows [pet_id, requester_id, status]
    mating_requests,    \* rows [pet_id, requester_pet_id, status]
    vet_appointments,   \* rows [owner_id, pet_id, vet_id, appointment_time]
    files,              \* names of the files in UPLOAD_FOLDER
    session,            \* per client, the user id its session cookie stores (0: none)
    foreign_keys,       \* whether the configured store enforces FOREIGN KEY
    pending,            \* per worker, the User a register request has added and not yet committed
    seeder,             \* the position of a running create_admin_and_vet
    req,                \* the last request
    resp                \* and the response to it

tables == <<users, pets, adoption_requests, mating_requests, vet_appointments>>
data_tables == <<pets, adoption_requests, mating_requests, vet_appointments>>
vars == <<users, pets, adoption_requests, mating_requests, vet_appointments,
          files, session, foreign_keys, pending, seeder, req, resp>>

RequestRows == Len(adoption_requests) + Len(mating_requests) + Len(vet_appointments)

\* ---------------------------------------------------------- responses
NoData == [users |-> <<>>, pets |-> <<>>, adoptions |-> <<>>, matings |-> <<>>,
           appointments |-> <<>>]
Redirect(to, flash) == [code |-> 302, to |-> to, flash |-> flash, data |-> NoData]
Render(page, flash, data) == [code |-> 200, to |-> page, flash |-> flash, data |-> data]
\* An exception no handler catches: the request fails with status 500.
ServerError == [code |-> 500, to |-> "", flash |-> "", data |-> NoData]
\* A command-line run and a request still in flight have no HTTP response.
NoResponse == [code |-> 0, to |-> "", flash |-> "", data |-> NoData]
\* login_manager.unauthorized(): redirect to login_view.
Unauthorized == Redirect("login", "Please log in to access this page.")

\* ------------------------------------------------------------- store
HasEmail(rows, email) == \E i \in DOMAIN rows : rows[i].email = email

\* User.query.filter_by(email=email).first(): the id of the row, or 0.
first_by_email(rows, email) ==
    IF HasEmail(rows, email)
    THEN CHOOSE i \in DOMAIN rows : rows[i].email = email /\ \A j \in DOMAIN rows : rows[j].email = email => i <= j
    ELSE 0

\* A mutant of unique_email: the column declared without unique=True.
unique_email_off(rows, row) == TRUE

\* The UNIQUE constraint of users.email: whether the store accepts the row.
unique_email(rows, row) == ~HasEmail(rows, row.email)

\* The FOREIGN KEY constraints, where the store enforces them: every id is a
\* row of the table it refers to.
references(ids, rows) == foreign_keys => \A i \in ids : i \in DOMAIN rows

\* A mutant of current_user: the id of the session taken without the lookup.
current_user_unchecked(c) == session[c]

\* load_user behind current_user: the id the session stores when it is the id of
\* a users row, otherwise 0 (anonymous).
current_user(c) == IF session[c] \in DOMAIN users THEN session[c] ELSE 0

RoleOf(uid) == IF uid \in DOMAIN users THEN users[uid].role ELSE ""

AdminUser == [email |-> AdminEmail, password_hash |-> generate_password_hash(PwAdmin), role |-> "admin"]
VetUser == [email |-> VetEmail, password_hash |-> generate_password_hash(PwVet), role |-> "vet"]

\* A mutant of create_admin_and_vet: both accounts added without the lookups.
create_admin_and_vet_blind(rows) == Append(Append(rows, AdminUser), VetUser)

\* create_admin_and_vet as one transaction on the rows it finds.
create_admin_and_vet(rows) ==
    LET withAdmin == IF ~HasEmail(rows, AdminEmail) THEN Append(rows, AdminUser) ELSE rows
    IN  IF ~HasEmail(withAdmin, VetEmail) THEN Append(withAdmin, VetUser) ELSE withAdmin

\* ------------------------------------------------------------ actions
Idle == [pc |-> "idle", add_admin |-> FALSE, add_vet |-> FALSE]
NoneInFlight == pending = [w \in Workers |-> None] /\ seeder = Idle

Reply(rq, rs) == req' = rq /\ resp' = rs

\* A mutant of register_checks: the password is not validated.
register_checks_no_policy(email, password) ==
    IF \E i \in DOMAIN users : users[i].email = email THEN "exists" ELSE "ok"

\* The two checks of register before it writes: "exists", "weak" or "ok".
register_checks(email, password) ==
    IF first_by_email(users, email) # 0 THEN "exists"
    ELSE IF ~password_pattern(password) THEN "weak"
    ELSE "ok"

\* A mutant of new_user: a role outside owner and vet is stored as "owner".
new_user_known_roles(email, password, role) ==
    [email |-> email, password_hash |-> generate_password_hash(password),
     role |-> IF role = None \/ role[1] \notin {"owner", "vet"} THEN "owner" ELSE role[1]]

\* The User register builds: role = request.form.get("role", "owner").
new_user(email, password, role) ==
    [email |-> email, password_hash |-> generate_password_hash(password),
     role |-> IF role = None THEN "owner" ELSE role[1]]

RegisterRejected(out) ==
    Redirect("register",
             IF out = "exists" THEN "Email already registered"
             ELSE "Password must be at least 8 characters and include uppercase, lowercase, number, and special character.")
RegisterDone == Redirect("login", "Registration successful. Please login.")

\* POST /register, handled without another request in between.
register(c, email, password, role) ==
    LET out == register_checks(email, password)
        row == new_user(email, password, role)
        rq  == [op |-> "register", client |-> c, email |-> email, password |-> password, role |-> role]
    IN  /\ NoneInFlight
        /\ IF out # "ok"
           THEN Reply(rq, RegisterRejected(out)) /\ UNCHANGED users
           ELSE IF unique_email(users, row)
           THEN users' = Append(users, row) /\ Reply(rq, RegisterDone)
           ELSE UNCHANGED users /\ Reply(rq, ServerError)
        /\ UNCHANGED <<data_tables, files, session, foreign_keys, pending, seeder>>

\* A mutant of login_failed: the answer names the part that failed.
login_failed_oracle(uid) ==
    Render("auth_login.html", IF uid = 0 THEN "Unknown email" ELSE "Wrong password", NoData)

\* The else branch of login: what a login that fails answers, whether no row
\* has the email (uid = 0) or the password does not verify.
login_failed(uid) == Render("auth_login.html", "Invalid email or password", NoData)

\* POST /login
login(c, email, password) ==
    LET uid == first_by_email(users, email)
        rq  == [op |-> "login", client |-> c, email |-> email, password |-> password]
    IN  /\ NoneInFlight
        /\ IF uid # 0 /\ check_password_hash(users[uid].password_hash, password)
           THEN /\ session' = [session EXCEPT ![c] = uid]
                /\ Reply(rq, Redirect("dashboard", "Logged in successfully"))
           ELSE /\ UNCHANGED session
                /\ Reply(rq, login_failed(uid))
        /\ UNCHANGED <<tables, files, foreign_keys, pending, seeder>>

\* GET /logout
logout(c) ==
    LET rq == [op |-> "logout", client |-> c]
    IN  /\ NoneInFlight
        /\ IF current_user(c) = 0
           THEN UNCHANGED session /\ Reply(rq, Unauthorized)
           ELSE session' = [session EXCEPT ![c] = 0] /\ Reply(rq, Redirect("login", "Logged out"))
        /\ UNCHANGED <<tables, files, foreign_keys, pending, seeder>>

\* A login_required view: it reads and writes nothing but the response.
View(c, op, rs) ==
    /\ NoneInFlight
    /\ Reply([op |-> op, client |-> c], IF current_user(c) = 0 THEN Unauthorized ELSE rs)
    /\ UNCHANGED <<tables, files, session, foreign_keys, pending, seeder>>

\* GET /dashboard
dashboard(c) ==
    LET uid == current_user(c)
    IN  View(c, "dashboard",
             Render("dashboard.html", "",
                    [NoData EXCEPT !.pets = SelectSeq(pets, LAMBDA p : p.owner_id = uid),
                                   !.appointments = SelectSeq(vet_appointments, LAMBDA a : a.owner_id = uid),
                                   !.adoptions = SelectSeq(adoption_requests, LAMBDA a : a.requester_id = uid)]))

\* GET /pets
pets_page(c) == View(c, "pets", Render("pets.html", "", [NoData EXCEPT !.pets = pets]))

\* GET /appointments
appointments(c) ==
    LET uid == current_user(c)
    IN  View(c, "appointments",
             Render("vet_appointments.html", "",
                    IF RoleOf(uid) = "vet"
                    THEN [NoData EXCEPT !.appointments = SelectSeq(vet_appointments, LAMBDA a : a.vet_id = uid)]
                    ELSE [NoData EXCEPT !.appointments = SelectSeq(vet_appointments, LAMBDA a : a.owner_id = uid),
                                        !.users = users]))

AllData == [users |-> users, pets |-> pets, adoptions |-> adoption_requests,
            matings |-> mating_requests, appointments |-> vet_appointments]

\* A mutant of admin_only: every role but "owner" passes.
admin_only_staff(uid) == uid \in DOMAIN users /\ users[uid].role # "owner"

\* The role gate of the admin view.
admin_only(uid) == RoleOf(uid) = "admin"

\* GET /admin
admin_dashboard(c) ==
    View(c, "admin_dashboard",
         IF ~admin_only(current_user(c))
         THEN Redirect("dashboard", "Admin access only.")
         ELSE Render("admin_dashboard.html", "", AllData))

\* The image part of add_pet: the name stored on the Pet, or None.
image_filename(image) ==
    IF image # None /\ image[1] # <<>> /\ allowed_file(image[1])
    THEN Some(secure_filename(image[1]))
    ELSE None

\* A mutant of pet_owner: an owner_id field of the form is believed.
pet_owner_from_form(uid, owner) ==
    IF owner # None /\ IntOf(owner[1]).ok THEN IntOf(owner[1]).val ELSE uid

\* owner_id=current_user.id: the owner of a new Pet, whatever the form holds.
pet_owner(uid, owner) == uid

\* POST /pets/add
add_pet(c, age, image, owner) ==
    LET uid  == current_user(c)
        a    == AgeOf(age)
        name == image_filename(image)
        rq   == [op |-> "add_pet", client |-> c, age |-> age, image |-> image, owner |-> owner]
    IN  /\ NoneInFlight
        /\ IF uid = 0
           THEN Reply(rq, Unauthorized) /\ UNCHANGED <<pets, files>>
           ELSE IF ~a.ok
           THEN Reply(rq, ServerError) /\ UNCHANGED <<pets, files>>
           ELSE /\ Len(pets) < MaxPets
                /\ files' = IF name = None THEN files ELSE files \cup {name[1]}
                /\ IF references({pet_owner(uid, owner)}, users)
                   THEN /\ pets' = Append(pets, [owner_id |-> pet_owner(uid, owner), age |-> a.val, image |-> name])
                        /\ Reply(rq, Redirect("dashboard", "Pet added successfully"))
                   ELSE UNCHANGED pets /\ Reply(rq, ServerError)
        /\ UNCHANGED <<users, adoption_requests, mating_requests, vet_appointments,
                       session, foreign_keys, pending, seeder>>

\* POST /adopt/<int:pet_id>
adopt_pet(c, pet_id) ==
    LET uid == current_user(c)
        rq  == [op |-> "adopt_pet", client |-> c, pet_id |-> pet_id]
    IN  /\ NoneInFlight
        /\ IF uid = 0
           THEN Reply(rq, Unauthorized) /\ UNCHANGED adoption_requests
           ELSE /\ RequestRows < MaxRequests
                /\ IF references({pet_id}, pets) /\ references({uid}, users)
                   THEN /\ adoption_requests' = Append(adoption_requests,
                              [pet_id |-> pet_id, requester_id |-> uid, status |-> "pending"])
                        /\ Reply(rq, Redirect("pets", "Adoption request submitted"))
                   ELSE UNCHANGED adoption_requests /\ Reply(rq, ServerError)
        /\ UNCHANGED <<users, pets, mating_requests, vet_appointments, files,
                       session, foreign_keys, pending, seeder>>

\* POST /mating/request/<int:pet_id>
request_mating(c, pet_id, requester_pet_id) ==
    LET uid == current_user(c)
        rp  == IntOf(requester_pet_id)
        rq  == [op |-> "request_mating", client |-> c, pet_id |-> pet_id,
                requester_pet_id |-> requester_pet_id]
    IN  /\ NoneInFlight
        /\ IF uid = 0
           THEN Reply(rq, Unauthorized) /\ UNCHANGED mating_requests
           ELSE IF ~rp.ok
           THEN Reply(rq, ServerError) /\ UNCHANGED mating_requests
           ELSE /\ RequestRows < MaxRequests
                /\ IF references({pet_id, rp.val}, pets)
                   THEN /\ mating_requests' = Append(mating_requests,
                              [pet_id |-> pet_id, requester_pet_id |-> rp.val, status |-> "pending"])
                        /\ Reply(rq, Redirect("pets", "Mating request submitted"))
                   ELSE UNCHANGED mating_requests /\ Reply(rq, ServerError)
        /\ UNCHANGED <<users, pets, adoption_requests, vet_appointments, files,
                       session, foreign_keys, pending, seeder>>

\* POST /appointments/book
book_appointment(c, pet_id, vet_id, time_str) ==
    LET uid == current_user(c)
        p   == IntOf(pet_id)
        v   == IntOf(vet_id)
        dt  == Strptime(time_str)
        rq  == [op |-> "book_appointment", client |-> c, pet_id |-> pet_id,
                vet_id |-> vet_id, appointment_time |-> time_str]
    IN  /\ NoneInFlight
        /\ IF uid = 0
           THEN Reply(rq, Unauthorized) /\ UNCHANGED vet_appointments
           ELSE IF ~p.ok \/ ~v.ok \/ ~dt.ok
           THEN Reply(rq, ServerError) /\ UNCHANGED vet_appointments
           ELSE /\ RequestRows < MaxRequests
                /\ IF references({p.val}, pets) /\ references({uid, v.val}, users)
                   THEN /\ vet_appointments' = Append(vet_appointments,
                              [owner_id |-> uid, pet_id |-> p.val, vet_id |-> v.val,
                               appointment_time |-> dt.val])
                        /\ Reply(rq, Redirect("appointments", "Appointment booked"))
                   ELSE UNCHANGED vet_appointments /\ Reply(rq, ServerError)
        /\ UNCHANGED <<users, pets, adoption_requests, mating_requests, files,
                       session, foreign_keys, pending, seeder>>

\* flask init-db: drop_all, create_all, create_admin_and_vet.
init_db ==
    /\ NoneInFlight
    /\ users' = create_admin_and_vet(<<>>)
    /\ pets' = <<>> /\ adoption_requests' = <<>> /\ mating_requests' = <<>>
    /\ vet_appointments' = <<>>
    /\ Reply([op |-> "init_db", client |-> ""], NoResponse)
    /\ UNCHANGED <<files, session, foreign_keys, pending, seeder>>

\* python app.py on an existing database: create_all, create_admin_and_vet.
main ==
    /\ NoneInFlight
    /\ users' = create_admin_and_vet(users)
    /\ Reply([op |-> "main", client |-> ""], NoResponse)
    /\ UNCHANGED <<data_tables, files, session, foreign_keys, pending, seeder>>

\* The state python app.py leaves on a new database, before the first request.
Init ==
    /\ users = create_admin_and_vet(<<>>)
    /\ pets = <<>> /\ adoption_requests = <<>> /\ mating_requests = <<>>
    /\ vet_appointments = <<>>
    /\ files = {}
    /\ session = [c \in Clients |-> 0]
    /\ foreign_keys \in BOOLEAN
    /\ pending = [w \in Workers |-> None]
    /\ seeder = Idle
    /\ req = [op |-> "main", client |-> ""]
    /\ resp = NoResponse

Next ==
    \/ \E c \in Clients, f \in RegisterForms : register(c, f.email, f.password, f.role)
    \/ \E c \in Clients, f \in LoginForms : login(c, f.email, f.password)
    \/ \E c \in Clients : logout(c)
    \/ \E c \in Clients : dashboard(c)
    \/ \E c \in Clients : pets_page(c)
    \/ \E c \in Clients : appointments(c)
    \/ \E c \in Clients : admin_dashboard(c)
    \/ \E c \in Clients, f \in AddPetForms : add_pet(c, f.age, f.image, f.owner)
    \/ \E c \in Clients, p \in PetIdArgs : adopt_pet(c, p)
    \/ \E c \in Clients, f \in MatingForms : request_mating(c, f.pet_id, f.requester_pet_id)
    \/ \E c \in Clients, f \in BookForms : book_appointment(c, f.pet_id, f.vet_id, f.appointment_time)
    \/ init_db
    \/ main

Spec == Init /\ [][Next]_vars

\* ------------------------------------------------ requests at once
\* register up to db.session.add(user): the SELECT and the password check run
\* against the committed rows, and the new User waits for the commit.
register_begin(w, email, password, role) ==
    LET out == register_checks(email, password)
        rq  == [op |-> "register", client |-> w, email |-> email, password |-> password, role |-> role]
    IN  /\ pending[w] = None
        /\ IF out # "ok"
           THEN Reply(rq, RegisterRejected(out)) /\ UNCHANGED pending
           ELSE /\ pending' = [pending EXCEPT ![w] = Some(new_user(email, password, role))]
                /\ Reply(rq, NoResponse)
        /\ UNCHANGED <<tables, files, session, foreign_keys, seeder>>

\* db.session.commit() of register: the INSERT is checked against the rows
\* committed by then; a violated constraint is an IntegrityError.
register_commit(w) ==
    LET row == pending[w][1]
        rq  == [op |-> "register_commit", client |-> w, email |-> row.email]
    IN  /\ pending[w] # None
        /\ pending' = [pending EXCEPT ![w] = None]
        /\ IF unique_email(users, row)
           THEN users' = Append(users, row) /\ Reply(rq, RegisterDone)
           ELSE UNCHANGED users /\ Reply(rq, ServerError)
        /\ UNCHANGED <<data_tables, files, session, foreign_keys, seeder>>

\* python app.py starts beside a running server: create_all keeps the tables.
main_begin ==
    /\ seeder.pc = "idle"
    /\ seeder' = [Idle EXCEPT !.pc = "query_admin"]
    /\ Reply([op |-> "main", client |-> ""], NoResponse)
    /\ UNCHANGED <<tables, files, session, foreign_keys, pending>>

\* flask init-db beside a running server: drop_all and create_all empty the tables.
init_db_begin ==
    /\ seeder.pc = "idle"
    /\ seeder' = [Idle EXCEPT !.pc = "query_admin"]
    /\ users' = <<>> /\ pets' = <<>> /\ adoption_requests' = <<>>
    /\ mating_requests' = <<>> /\ vet_appointments' = <<>>
    /\ Reply([op |-> "init_db", client |-> ""], NoResponse)
    /\ UNCHANGED <<files, session, foreign_keys, pending>>

\* create_admin_and_vet, the first SELECT and the add it decides.
seed_query_admin ==
    /\ seeder.pc = "query_admin"
    /\ seeder' = [seeder EXCEPT !.pc = "query_vet", !.add_admin = ~HasEmail(users, AdminEmail)]
    /\ UNCHANGED <<tables, files, session, foreign_keys, pending, req, resp>>

\* create_admin_and_vet, the second SELECT and the add it decides.
seed_query_vet ==
    /\ seeder.pc = "query_vet"
    /\ seeder' = [seeder EXCEPT !.pc = "commit", !.add_vet = ~HasEmail(users, VetEmail)]
    /\ UNCHANGED <<tables, files, session, foreign_keys, pending, req, resp>>

\* create_admin_and_vet, db.session.commit(): one transaction, so a violated
\* constraint leaves neither row.
seed_commit ==
    LET withAdmin == IF seeder.add_admin THEN Append(users, AdminUser) ELSE users
        withBoth  == IF seeder.add_vet THEN Append(withAdmin, VetUser) ELSE withAdmin
        accepted  == /\ seeder.add_admin => unique_email(users, AdminUser)
                     /\ seeder.add_vet => unique_email(withAdmin, VetUser)
    IN  /\ seeder.pc = "commit"
        /\ seeder' = Idle
        /\ users' = IF accepted THEN withBoth ELSE users
        /\ UNCHANGED <<data_tables, files, session, foreign_keys, pending, req, resp>>

NextConc ==
    \/ \E w \in Workers, f \in RegisterForms : register_begin(w, f.email, f.password, f.role)
    \/ \E w \in Workers : register_commit(w)
    \/ main_begin
    \/ init_db_begin
    \/ seed_query_admin
    \/ seed_query_vet
    \/ seed_commit

SpecConc == Init /\ [][NextConc]_vars

\* --------------------------------------------- seeding, from any store
SeedEmails == {AdminEmail, VetEmail, "alice@x.com"}
SeedRows == [email : SeedEmails,
             password_hash : {generate_password_hash(PwStrong), generate_password_hash(PwAdmin)},
             role : {"owner", "admin", "vet"}]
\* The users tables of at most two rows the UNIQUE constraint allows.
Stores == {<<>>} \cup {<<r>> : r \in SeedRows}
              \cup {<<r, q>> : r \in SeedRows, q \in SeedRows}

InitSeed ==
    /\ users \in {st \in Stores : \A i, j \in DOMAIN st : st[i].email = st[j].email => i = j}
    /\ pets = <<>> /\ adoption_requests = <<>> /\ mating_requests = <<>>
    /\ vet_appointments = <<>>
    /\ files = {}
    /\ session = [c \in Clients |-> 0]
    /\ foreign_keys = TRUE
    /\ pending = [w \in Workers |-> None]
    /\ seeder = Idle
    /\ req = [op |-> "create_all", client |-> ""]
    /\ resp = NoResponse

NextSeed == main

SpecSeed == InitSeed /\ [][NextSeed]_vars

\* ------------------------------------------------------------ claims
\* The session of the client of the last request names a users row.
ValidSession(c) == session[c] \in DOMAIN users

Store == <<users, pets, adoption_requests, mating_requests, vet_appointments, files>>

\* The password policy in words: at least 8 characters, with a lowercase
\* letter, an uppercase letter, a digit and a non-alphanumeric character.
Letters == AsciiLower \cup AsciiUpper \cup OtherLower \cup OtherUpper
WordedPolicy(pw) ==
    /\ Len(pw) >= 8
    /\ \E i \in 1..Len(pw) : pw[i] \in AsciiLower \cup OtherLower
    /\ \E i \in 1..Len(pw) : pw[i] \in AsciiUpper \cup OtherUpper
    /\ \E i \in 1..Len(pw) : pw[i] \in Digits
    /\ \E i \in 1..Len(pw) : pw[i] \notin Letters \cup Digits

\* What a register step does when its password counts as acceptable.
RegisterContract(acceptable) ==
    req'.op = "register" =>
        IF ~HasEmail(users, req'.email) /\ acceptable
        THEN /\ Len(users') = Len(users) + 1
             /\ SubSeq(users', 1, Len(users)) = users
             /\ users'[Len(users')].email = req'.email
             /\ check_password_hash(users'[Len(users')].password_hash, req'.password)
             /\ UNCHANGED <<data_tables, files>>
        ELSE /\ UNCHANGED Store
             /\ resp'.code = 302 /\ resp'.to = "register"

ProtectedOps == {"logout", "dashboard", "pets", "add_pet", "adopt_pet", "request_mating",
                 "appointments", "book_appointment", "admin_dashboard"}

\* C2: a request to a protected operation whose session is absent, or stores
\* an id that is no users row, writes no table and no file, keeps the session,
\* returns no stored data and is redirected to login.
C2_LoginRequired ==
    [][(req'.op \in ProtectedOps /\ ~ValidSession(req'.client)) =>
          /\ UNCHANGED <<Store, session>>
          /\ resp' = Redirect("login", "Please log in to access this page.")]_vars

C2_Witness ==
    /\ req.op = "add_pet"
    /\ session[req.client] # 0 /\ ~ValidSession(req.client)
    /\ resp.to = "login"

\* Whether the e-mail and password of a login are those of a users row.
Verifies(rows, email, password) ==
    \E i \in DOMAIN rows : rows[i].email = email
                           /\ rows[i].password_hash.of = SubSeq(password, 1, Min(72, Len(password)))

\* C3: a login binds the session to user u exactly when the e-mail is u's and
\* the password verifies against u's hash; every other login leaves the
\* session as it was and gets one and the same answer, whether the e-mail is
\* unknown or the password is wrong.
C3_Login ==
    [][req'.op = "login" =>
          LET c == req'.client
          IN  IF Verifies(users, req'.email, req'.password)
              THEN /\ session'[c] \in DOMAIN users
                   /\ users[session'[c]].email = req'.email
                   /\ resp' = Redirect("dashboard", "Logged in successfully")
              ELSE /\ session' = session
                   /\ resp' = Render("auth_login.html", "Invalid email or password", NoData)]_vars

C3_Witness ==
    /\ req.op = "login"
    /\ HasEmail(users, req.email)
    /\ ~Verifies(users, req.email, req.password)
    /\ resp.flash = "Invalid email or password"

\* C4: the admin view gives the five tables to a session whose user has role
\* "admin" and to no other; an authenticated user of another role is
\* redirected to the dashboard with no data.
C4_AdminOnly ==
    req.op = "admin_dashboard" =>
        LET c == req.client
        IN  /\ (ValidSession(c) /\ users[session[c]].role # "admin")
                  => resp = Redirect("dashboard", "Admin access only.")
            /\ (ValidSession(c) /\ users[session[c]].role = "admin")
                  => (resp.code = 200 /\ resp.data = AllData)
            /\ resp.data # NoData => (ValidSession(c) /\ users[session[c]].role = "admin")

C4_Witness ==
    /\ req.op = "admin_dashboard"
    /\ ValidSession(req.client) /\ users[session[req.client]].role = "vet"
    /\ resp.to = "dashboard"

\* C5: a Pet row is created only by add_pet, with owner_id the id of the user
\* of the session that sent the request, whatever owner field the form holds,
\* and no step changes the owner_id of a row.
C5_PetOwner ==
    [][/\ Len(pets') > Len(pets) =>
             /\ req'.op = "add_pet"
             /\ Len(pets') = Len(pets) + 1
             /\ ValidSession(req'.client)
             /\ pets'[Len(pets')].owner_id = session[req'.client]
       /\ \A i \in DOMAIN pets \cap DOMAIN pets' : pets'[i].owner_id = pets[i].owner_id]_vars

C5_Witness ==
    /\ req.op = "add_pet" /\ resp.to = "dashboard"
    /\ req.owner = Some(<<"1">>)
    /\ pets[Len(pets)].owner_id = 3

\* C6: no two users rows hold the same e-mail, however register requests and
\* the seeding interleave.
C6_UniqueEmail == \A i, j \in DOMAIN users : users[i].email = users[j].email => i = j

C6_Witness ==
    /\ req.op = "register_commit" /\ resp = ServerError
    /\ HasEmail(users, req.email)

\* C7: every pet_id and requester_pet_id is the id of a pets row and every
\* requester_id, owner_id and vet_id the id of a users row.
C7_ReferentialIntegrity ==
    /\ \A i \in DOMAIN pets : pets[i].owner_id \in DOMAIN users
    /\ \A i \in DOMAIN adoption_requests :
          /\ adoption_requests[i].pet_id \in DOMAIN pets
          /\ adoption_requests[i].requester_id \in DOMAIN users
    /\ \A i \in DOMAIN mating_requests :
          /\ mating_requests[i].pet_id \in DOMAIN pets
          /\ mating_requests[i].requester_pet_id \in DOMAIN pets
    /\ \A i \in DOMAIN vet_appointments :
          /\ vet_appointments[i].pet_id \in DOMAIN pets
          /\ vet_appointments[i].owner_id \in DOMAIN users
          /\ vet_appointments[i].vet_id \in DOMAIN users

AgeMissing(f) == f = None \/ f[1] = <<>>

\* C8: add_pet with an absent or empty age stores a Pet of age 0; add_pet with
\* an age that is no number, and book_appointment with a time strptime
\* rejects, fail and leave every table and the image directory as they were.
C8_InputFailures ==
    [][/\ (req'.op = "add_pet" /\ ValidSession(req'.client) /\ AgeMissing(req'.age)) =>
             /\ Len(pets') = Len(pets) + 1
             /\ pets'[Len(pets')].age = 0
       /\ (req'.op = "add_pet" /\ ~AgeMissing(req'.age) /\ ~IntOf(req'.age[1]).ok) =>
             /\ UNCHANGED Store
             /\ ValidSession(req'.client) => resp' = ServerError
       /\ (req'.op = "book_appointment" /\ ~Strptime(req'.appointment_time).ok) =>
             /\ UNCHANGED Store
             /\ ValidSession(req'.client) => resp' = ServerError]_vars

C8_Witness ==
    /\ req.op = "add_pet" /\ ValidSession(req.client)
    /\ req.age = Some(<<"a","b","c">>) /\ req.image = Some(RexPng)
    /\ resp = ServerError
    /\ files = {}

EmailCount(rows, email) == Cardinality({i \in DOMAIN rows : rows[i].email = email})

\* C9: seeding keeps every row it finds, leaves exactly one row under the admin
\* e-mail and one under the vet e-mail, gives an empty store the admin (role
\* admin) and the vet (role vet), and changes nothing when it follows itself.
C9_SeedIdempotent ==
    [][req'.op = "main" =>
          /\ SubSeq(users', 1, Len(users)) = users
          /\ EmailCount(users', AdminEmail) = 1 /\ EmailCount(users', VetEmail) = 1
          /\ users = <<>> =>
                /\ Len(users') = 2
                /\ \E i \in 1..2 : users'[i].email = AdminEmail /\ users'[i].role = "admin"
                /\ \E i \in 1..2 : users'[i].email = VetEmail /\ users'[i].role = "vet"
          /\ req.op = "main" => users' = users]_vars

C9_Witness ==
    /\ req.op = "main"
    /\ Len(users) = 3
    /\ \E i \in DOMAIN users : users[i].email = AdminEmail /\ users[i].role = "owner"
    /\ users[3].email = VetEmail

\* C10: register stores the role the client sent (owner when it sent none), no
\* step changes the role of a row, and the admin view is given to every session
\* whose user has role "admin", so to an account that registered with it.
C10_RoleFromForm ==
    [][/\ (req'.op = "register" /\ Len(users') > Len(users)) =>
             users'[Len(users')].role = (IF req'.role = None THEN "owner" ELSE req'.role[1])
       /\ \A i \in DOMAIN users \cap DOMAIN users' : users'[i].role = users[i].role
       /\ (req'.op = "admin_dashboard" /\ ValidSession(req'.client)
              /\ users[session[req'.client]].role = "admin") =>
             (resp'.code = 200 /\ resp'.data = AllData')]_vars

C10_Witness ==
    /\ req.op = "admin_dashboard" /\ resp.code = 200
    /\ ValidSession(req.client)
    /\ users[session[req.client]].email = "alice@x.com"
    /\ resp.data.users = users

====
